---- MODULE Spec2Model ----
(***************************************************************************)
(* Model of the renrs-lang lexer (src/src/renrs_lang/lexer.rs).            *)
(*                                                                         *)
(* A character is modelled as a string naming it; a string of characters   *)
(* (Vec<char>, the remaining input) is a sequence of such names.           *)
(* Option<char>::None is the value None.  One action, Pull, is one call of *)
(* Iterator::next on the lexer.                                            *)
(***************************************************************************)
EXTENDS Integers, Sequences, FiniteSets, TLC

VARIABLES
    src,      \* the text given to Lexer::new (never changes)
    lexer,    \* struct Lexer: input (the characters not yet read), position, ch;
              \* and fault, the internal errors (Unreachable, a failed unwrap)
              \* its calls have run into so far
    out,      \* the items yielded so far, one per pull, oldest first
    last      \* the latest pull: the character it dispatched on, and its index in src

vars == <<src, lexer, out, last>>

-----------------------------------------------------------------------------
(* Bounds of the model *)

\* inputs of every length up to MaxLen over the alphabet Sigma are explored
MaxLen == 3

\* pulls made on one lexer
MaxPulls == 6

-----------------------------------------------------------------------------
(* Characters *)

\* Option::None for the current character / a peek at the end of input
None == "None"

\* U+00BE VULGAR FRACTION THREE QUARTERS: char::is_numeric is true of it (general
\* category No), and it is not a decimal digit
ThreeQuarters == "U+00BE"

\* U+0060 GRAVE ACCENT, the backtick
Backtick == "U+0060"

\* the characters of which char::is_alphabetic is true, among those used
Alphabetic == {"a", "b", "c", "d", "e", "h", "i", "l", "n", "o", "r", "t", "w", "z", "H"}

\* the decimal digits used
Digits == {"0", "1"}

\* the characters of which char::is_numeric is true, among those used
Numeric == Digits \cup {ThreeQuarters}

\* the seven single-character operators and brackets
Operators == {"=", "+", "-", "{", "}", "(", ")"}

\* the alphabet from which the explored inputs are drawn: one or more
\* characters of every class the lexer tells apart
Sigma == {"=", "\"", "'", Backtick, "\n", ";", " ", "\t", "a", "_", "1", ThreeQuarters, ".", "#"}

RECURSIVE Strings(_, _)
\* the sequences over S of length at most n
Strings(S, n) ==
    IF n = 0 THEN {<<>>}
    ELSE LET shorter == Strings(S, n - 1)
         IN  shorter \cup {Append(s, c) : s \in shorter, c \in S}

\* the inputs of the lexer's own tests (mod test)
TestInputs ==
    { <<>>,
      <<"_", "i", "d", "e", "n", "t">>,
      <<"h", "e", "l", "l", "o">>,
      <<" ", " ", " ", "\n", "h", "e", "l", "l", "o">>,
      <<" ", " ", " ", " ", " ", "h", "1">>,
      <<"1">>, <<".", "1">>, <<"1", ".", "1">>,
      <<".", ".">>,
      <<"0", "0", "0", "0", ".", "1", "0", ".", "0">>,
      <<"a", " ", "b", " ", "c", " ", "d">>,
      <<"a", ".", "z">>,
      <<"\"", "H", "e", "l", "l", "o", ",", " ", "w", "o", "r", "l", "d", "!">>,
      <<"\"", "a", "\n", "\"", "b">>,
      <<"\"", "a", "\"", " ", "b">> }

Inputs == Strings(Sigma, MaxLen) \cup Strings(Operators, MaxLen) \cup TestInputs

-----------------------------------------------------------------------------
(* Pos *)

\* Option<usize>::None for Pos.raw
NoRaw == -1

\* Pos::advance returns Err(Unreachable): the arm `_` of `match self.raw`,
\* taken when raw is not None, finds raw to be None in `self.raw.ok_or(..)?`
advance_fails(pos) == IF pos.raw = NoRaw THEN FALSE ELSE pos.raw = NoRaw

\* Pos::advance that counts the offset in the column branch alone
advance_raw_in_else(pos, new_line) ==
    [ line   |-> IF new_line THEN pos.line + 1 ELSE pos.line,
      column |-> IF new_line THEN pos.column ELSE pos.column + 1,
      raw    |-> IF new_line THEN pos.raw
                 ELSE IF pos.raw = NoRaw THEN 0 ELSE pos.raw + 1 ]

\* Pos::advance with the two counters exchanged: a column for a newline, a
\* line for any other character
advance_inverted(pos, new_line) ==
    [ line   |-> IF new_line THEN pos.line ELSE pos.line + 1,
      column |-> IF new_line THEN pos.column + 1 ELSE pos.column,
      raw    |-> IF pos.raw = NoRaw THEN 0 ELSE pos.raw + 1 ]

\* Pos::advance: the position after one more character
advance(pos, new_line) ==
    [ line   |-> IF new_line THEN pos.line + 1 ELSE pos.line,
      column |-> IF new_line THEN pos.column ELSE pos.column + 1,
      raw    |-> IF pos.raw = NoRaw THEN 0 ELSE pos.raw + 1 ]

-----------------------------------------------------------------------------
(* Token, items *)

Token(type, chars) == [type |-> type, chars |-> chars]

\* Iterator::Item is Option<Result<(Token, Pos), CompilationErr>>
NoneItem == [tag |-> "None"]
OkItem(tok, pos) == [tag |-> "Ok", tok |-> tok, pos |-> pos]
ErrItem(kind) == [tag |-> "Err", kind |-> kind]

\* Result<Vec<char>, CompilationErr> of a sub-scanner, with the lexer it leaves
ScanOk(val, l) == [ok |-> TRUE, val |-> val, lexer |-> l]
ScanErr(kind, l) == [ok |-> FALSE, kind |-> kind, lexer |-> l]

-----------------------------------------------------------------------------
(* Lexer *)

\* Lexer::new
new(input) ==
    [ input    |-> input,
      position |-> [line |-> 0, column |-> 1, raw |-> NoRaw],
      ch       |-> None,
      fault    |-> {} ]

\* Peekable::peek on the remaining input
peek(l) == IF l.input = <<>> THEN None ELSE Head(l.input)

\* the faults of l and one more
Faulty(l, what) == [l EXCEPT !.fault = @ \cup {what}]

\* `self.position.advance(..).unwrap()`: the faults after it
advance_unwrap(l) ==
    IF advance_fails(l.position) THEN l.fault \cup {"advance"} ELSE l.fault

\* read_char with an end-of-input sentinel: at the end of the input the current
\* character becomes a newline instead of None
read_char_sentinel(l) ==
    [ input    |-> IF l.input = <<>> THEN <<>> ELSE Tail(l.input),
      position |-> advance(l.position, l.ch = "\n"),
      ch       |-> IF l.input = <<>> THEN "\n" ELSE Head(l.input),
      fault    |-> advance_unwrap(l) ]

\* read_char reading a newline without taking it from the input
read_char_stuck_on_newline(l) ==
    [ input    |-> IF l.input = <<>> \/ peek(l) = "\n" THEN l.input ELSE Tail(l.input),
      position |-> advance(l.position, l.ch = "\n"),
      ch       |-> peek(l),
      fault    |-> advance_unwrap(l) ]

\* Lexer::read_char
read_char(l) ==
    [ input    |-> IF l.input = <<>> THEN <<>> ELSE Tail(l.input),
      position |-> advance(l.position, l.ch = "\n"),
      ch       |-> peek(l),
      fault    |-> advance_unwrap(l) ]

\* Lexer::is_whitespace
is_whitespace(l) == l.ch \in {" ", "\t"}

\* Lexer::is_alphabetic
is_alphabetic(ch) == ch \in Alphabetic \cup {"_"}

\* Lexer::is_alphanumeric
is_alphanumeric(ch) == ch \in Alphabetic \cup Numeric \cup {"_"}

\* Lexer::is_num_char
is_num_char(ch) == ch \in Numeric \cup {"."}

RECURSIVE take_whitespace(_)
\* Lexer::take_whitespace
take_whitespace(l) ==
    IF is_whitespace(l) THEN take_whitespace(read_char(l)) ELSE l

RECURSIVE ident_loop_letters(_, _)
\* the loop of read_ident going on over identifier starts alone, not digits
ident_loop_letters(ident, l) ==
    IF is_alphabetic(peek(l))
    THEN LET l1 == read_char(l)
         IN  ident_loop_letters(IF l1.ch # None THEN Append(ident, l1.ch) ELSE ident, l1)
    ELSE [val |-> ident, lexer |-> l]

RECURSIVE ident_loop(_, _)
\* the while loop of Lexer::read_ident
ident_loop(ident, l) ==
    IF is_alphanumeric(peek(l))
    THEN LET l1 == read_char(l)
         IN  ident_loop(IF l1.ch # None THEN Append(ident, l1.ch) ELSE ident, l1)
    ELSE [val |-> ident, lexer |-> l]

\* Lexer::read_ident
read_ident(l) ==
    IF l.ch = None THEN ScanErr("Unreachable", Faulty(l, "read_ident"))
    ELSE LET r == ident_loop(<<l.ch>>, l) IN ScanOk(r.val, r.lexer)

RECURSIVE num_loop(_, _)
\* the while loop of Lexer::read_num
num_loop(num, l) ==
    IF is_num_char(peek(l))
    THEN LET l1 == read_char(l)
         IN  num_loop(IF l1.ch # None THEN Append(num, l1.ch) ELSE num, l1)
    ELSE [val |-> num, lexer |-> l]

\* num.iter().filter(|&ch| ch == &'.').count()
count_dots(num) == Cardinality({i \in 1..Len(num) : num[i] = "."})

\* read_num that takes any decimal point at all as too many
read_num_no_dot(l) ==
    IF l.ch = None THEN ScanErr("Unreachable", Faulty(l, "read_num"))
    ELSE LET r == num_loop(<<l.ch>>, l)
         IN  IF count_dots(r.val) >= 1
             THEN ScanErr("InvalidNumber", r.lexer)
             ELSE ScanOk(r.val, r.lexer)

\* Lexer::read_num
read_num(l) ==
    IF l.ch = None THEN ScanErr("Unreachable", Faulty(l, "read_num"))
    ELSE LET r == num_loop(<<l.ch>>, l)
         IN  IF count_dots(r.val) > 1
             THEN ScanErr("InvalidNumber", r.lexer)
             ELSE ScanOk(r.val, r.lexer)

\* the condition of the while loop without its test for the end of the input
string_continues_no_end(l) ==
    /\ peek(l) # "\""
    /\ peek(l) # "'"
    /\ peek(l) # "\n"
    /\ peek(l) # ";"

\* the condition that lets the scan run over a ';'
string_continues_over_semicolon(l) ==
    /\ peek(l) # None
    /\ peek(l) # "\""
    /\ peek(l) # "'"
    /\ peek(l) # "\n"

\* the condition of the while loop of Lexer::read_string
string_continues(l) ==
    /\ peek(l) # None
    /\ peek(l) # "\""
    /\ peek(l) # "'"
    /\ peek(l) # "\n"
    /\ peek(l) # ";"

RECURSIVE string_loop(_, _)
\* the while loop of Lexer::read_string; `self.read_char().unwrap()` panics on
\* None, which ends the scan with the fault recorded
string_loop(string, l) ==
    IF string_continues(l)
    THEN LET l1 == read_char(l)
         IN  IF l1.ch = None
             THEN [val |-> string, lexer |-> Faulty(l1, "unwrap")]
             ELSE string_loop(Append(string, l1.ch), l1)
    ELSE [val |-> string, lexer |-> l]

\* read_string that closes the string on any quote character it stops at
read_string_any_quote(l) ==
    LET r == string_loop(<<>>, l)
    IN  ScanOk(r.val, IF peek(r.lexer) \in {"\"", "'"} THEN read_char(r.lexer) ELSE r.lexer)

\* read_string that demands a closing quote: an error when the scan stops at
\* the end of the input
read_string_strict(l) ==
    LET r == string_loop(<<>>, l)
    IN  IF peek(r.lexer) = None THEN ScanErr("InvalidString", r.lexer)
        ELSE ScanOk(r.val, IF peek(r.lexer) = "\"" THEN read_char(r.lexer) ELSE r.lexer)

\* Lexer::read_string
read_string(l) ==
    LET r == string_loop(<<>>, l)
    IN  ScanOk(r.val, IF peek(r.lexer) = "\"" THEN read_char(r.lexer) ELSE r.lexer)

-----------------------------------------------------------------------------
(* Iterator for Lexer *)

\* what a pull gives: the item, the lexer after it, the character dispatched on
Step(item, l, ch) == [item |-> item, lexer |-> l, ch |-> ch]

\* the single-character arms with the two parentheses exchanged
single_token_swapped(ch) ==
    CASE ch = "=" -> Token("Assign", <<ch>>)
      [] ch = "+" -> Token("Plus", <<ch>>)
      [] ch = "-" -> Token("Minus", <<ch>>)
      [] ch = "{" -> Token("LCurly", <<ch>>)
      [] ch = "}" -> Token("RCurly", <<ch>>)
      [] ch = "(" -> Token("RParen", <<ch>>)
      [] ch = ")" -> Token("LParen", <<ch>>)

\* the arms for '=' '+' '-' '{' '}' '(' ')'
single_token(ch) ==
    CASE ch = "=" -> Token("Assign", <<ch>>)
      [] ch = "+" -> Token("Plus", <<ch>>)
      [] ch = "-" -> Token("Minus", <<ch>>)
      [] ch = "{" -> Token("LCurly", <<ch>>)
      [] ch = "}" -> Token("RCurly", <<ch>>)
      [] ch = "(" -> Token("LParen", <<ch>>)
      [] ch = ")" -> Token("RParen", <<ch>>)

\* the arm for the three quote characters
string_arm(l, pos) ==
    LET r == read_string(l)
    IN  Step(IF r.ok THEN OkItem(Token("String", r.val), pos)
             ELSE ErrItem("InvalidString"),
             r.lexer, l.ch)

\* the number test made first: a '.' is never taken as member access
is_dot_access_never(o, l) == FALSE

\* the test made before the number test: a '.' and then the start of an identifier
is_dot_access(o, l) == o = "." /\ is_alphabetic(peek(l))

\* the item of `Some(Ok((Token::Ident(self.read_ident().ok()?), pos)))`
ident_item(r, pos) ==
    IF r.ok THEN OkItem(Token("Ident", r.val), pos) ELSE NoneItem

\* the item of `Some(Ok((Token::Num(self.read_num().ok()?), pos)))`
num_item(r, pos) ==
    IF r.ok THEN OkItem(Token("Num", r.val), pos) ELSE NoneItem

\* an unrecognised character ends the sequence
invalid_item_halts(ch, pos) == NoneItem

\* the item of the last line of the arm `o => ...`
invalid_item(ch, pos) == OkItem(Token("Invalid", <<ch>>), pos)

\* the arm `o => ...`
other_arm(l, pos) ==
    LET o == l.ch
    IN  IF is_alphabetic(o)
        THEN LET r == read_ident(l) IN Step(ident_item(r, pos), r.lexer, o)
        ELSE IF is_dot_access(o, l)
        THEN Step(OkItem(Token("Dot", <<>>), pos), l, o)
        ELSE IF is_num_char(o)
        THEN LET r == read_num(l) IN Step(num_item(r, pos), r.lexer, o)
        ELSE Step(invalid_item(o, pos), l, o)

\* Iterator::next
next(l0) ==
    LET l   == take_whitespace(read_char(l0))
        pos == l.position
        ch  == l.ch
    IN  IF ch = None THEN Step(NoneItem, l, None)
        ELSE IF ch \in Operators THEN Step(OkItem(single_token(ch), pos), l, ch)
        ELSE IF ch \in {"\"", "'", Backtick} THEN string_arm(l, pos)
        ELSE IF ch \in {"\n", ";"} THEN Step(OkItem(Token("EndOfLine", <<>>), pos), l, ch)
        ELSE other_arm(l, pos)

-----------------------------------------------------------------------------
(* The state machine: a lexer is made from an input and pulled repeatedly *)

Init ==
    /\ src \in Inputs
    /\ lexer = new(src)
    /\ out = <<>>
    /\ last = [ch |-> None, at |-> 0]

\* one call of Iterator::next
Pull ==
    /\ Len(out) < MaxPulls
    /\ LET r == next(lexer)
       IN  /\ lexer' = r.lexer
           /\ out' = Append(out, r.item)
           /\ last' = [ ch |-> r.ch,
                        at |-> IF r.ch = None THEN 0
                               ELSE Len(src) - Len(take_whitespace(read_char(lexer)).input) ]
    /\ UNCHANGED src

Next == Pull

Spec == Init /\ [][Next]_vars

-----------------------------------------------------------------------------
(* Vocabulary of the properties, defined on the input text alone *)

\* the two characters skipped as horizontal whitespace
Blank == {" ", "\t"}

\* the three quote characters
Quotes == {"\"", "'", Backtick}

\* the latest item yielded
LastItem == out[Len(out)]

\* the item yielded by the step being taken
NewItem == out'[Len(out')]

\* s from its i-th character on
From(s, i) == SubSeq(s, i, Len(s))

RECURSIVE Sig(_)
\* s without its leading run of horizontal whitespace: it starts at the first
\* significant character
Sig(s) == IF s # <<>> /\ Head(s) \in Blank THEN Sig(Tail(s)) ELSE s

RECURSIVE Run(_, _)
\* the maximal prefix of s made of characters of S
Run(S, s) ==
    IF s # <<>> /\ Head(s) \in S THEN <<Head(s)>> \o Run(S, Tail(s)) ELSE <<>>

RECURSIVE Before(_, _)
\* the maximal prefix of s holding no character of S
Before(S, s) ==
    IF s # <<>> /\ Head(s) \notin S THEN <<Head(s)>> \o Before(S, Tail(s)) ELSE <<>>

\* the number of decimal points of s
Dots(s) == Cardinality({i \in 1..Len(s) : s[i] = "."})

\* item is the token of this type carrying these characters (at any position)
IsToken(item, type, chars) ==
    item.tag = "Ok" /\ item.tok = [type |-> type, chars |-> chars]

\* item is a token of this type
HasType(item, type) == item.tag = "Ok" /\ item.tok.type = type

\* a pull on the remaining input s goes to the number sub-scanner: its first
\* significant character is numeric or a '.', and is not a '.' before the start
\* of an identifier
GoesToNumber(s) ==
    /\ Sig(s) # <<>>
    /\ Head(Sig(s)) \in Numeric \cup {"."}
    /\ ~ ( /\ Head(Sig(s)) = "."
           /\ Len(Sig(s)) >= 2
           /\ Sig(s)[2] \in Alphabetic \cup {"_"} )

-----------------------------------------------------------------------------
(* C1 *)

\* C1: end-of-sequence is sticky: once a pull has yielded None, every later
\* pull on the same lexer yields None too, also when the first None came
\* from a pull that went to the number sub-scanner.
C1_EndIsSticky ==
    [][(out # <<>> /\ LastItem = NoneItem) => NewItem = NoneItem]_vars

-----------------------------------------------------------------------------
(* C2 *)

\* C2: a pull that goes to the number sub-scanner and whose run of numeric
\* characters and decimal points holds more than one decimal point yields
\* the error InvalidNumber (an Err item: no token, not end-of-sequence).
C2_InvalidNumberIsYielded ==
    [][(GoesToNumber(lexer.input)
          /\ Dots(Run(Numeric \cup {"."}, Sig(lexer.input))) > 1)
       => NewItem = ErrItem("InvalidNumber")]_vars

-----------------------------------------------------------------------------
(* C3 *)

\* the characters of identifiers
IdentChars == Alphabetic \cup Numeric \cup {"_"}

\* s is a list of identifiers separated by spaces
IsIdentList(s) ==
    /\ s # <<>>
    /\ \A i \in 1..Len(s) : s[i] \in IdentChars \cup {" "}
    /\ \A i \in 1..Len(s) :
          (s[i] # " " /\ (i = 1 \/ s[i - 1] = " ")) => s[i] \in Alphabetic \cup {"_"}

\* the number of identifiers of such a list
IdentCount(s) ==
    Cardinality({i \in 1..Len(s) : s[i] # " " /\ (i = 1 \/ s[i - 1] = " ")})

\* a pull made when every character has been consumed yields end-of-sequence
C3_ExhaustedStep ==
    (lexer.input = <<>>) => (NewItem = NoneItem /\ lexer'.input = <<>>)

\* n identifiers separated by spaces give n Identifier tokens and then only
\* end-of-sequence (the empty input gives only end-of-sequence)
C3_IdentList ==
    (src = <<>> \/ IsIdentList(src)) =>
        \A i \in 1..Len(out) :
            IF src # <<>> /\ i <= IdentCount(src)
            THEN HasType(out[i], "Ident")
            ELSE out[i] = NoneItem

\* C3: exhaustion is idempotent: once every character of the input has been
\* consumed, every pull yields end-of-sequence, however often repeated; the
\* empty input yields end-of-sequence from the first pull on, and n
\* space-separated identifiers yield n Identifier tokens and then only
\* end-of-sequence.
C3_ExhaustionIsIdempotent ==
    [][C3_ExhaustedStep]_vars /\ [](C3_IdentList)

\* "a b c d" pulled six times: four identifiers, then end-of-sequence twice
C3_Witness ==
    /\ src = <<"a", " ", "b", " ", "c", " ", "d">>
    /\ Len(out) = 6
    /\ \A i \in 1..4 : HasType(out[i], "Ident")
    /\ out[5] = NoneItem /\ out[6] = NoneItem
    /\ lexer.input = <<>>

-----------------------------------------------------------------------------
(* C4 *)

\* the remaining input s starts, after horizontal whitespace, with a '.'
StartsWithDot(s) == Sig(s) # <<>> /\ Head(Sig(s)) = "."

\* the pull being taken yields Dot and consumes the '.' alone
YieldsDotAlone(s) ==
    /\ IsToken(NewItem, "Dot", <<>>)
    /\ lexer'.input = Tail(Sig(s))

\* the pull being taken is a number scan: it yields no Dot and consumes the
\* maximal run of numeric characters and decimal points
ScansNumber(s) ==
    /\ ~ HasType(NewItem, "Dot")
    /\ lexer'.input = From(Sig(s), Len(Run(Numeric \cup {"."}, Sig(s))) + 1)

\* the tie-break of a pull, with Starts the characters that make a '.' a Dot
DotTieBreak(Starts) ==
    LET s == lexer.input
    IN  StartsWithDot(s) =>
            IF Len(Sig(s)) >= 2 /\ Sig(s)[2] \in Starts
            THEN YieldsDotAlone(s)
            ELSE ScansNumber(s)

\* the pull after a Dot yields the Identifier that starts at the peeked character
AfterDot ==
    (out # <<>> /\ HasType(LastItem, "Dot")) =>
        /\ HasType(NewItem, "Ident")
        /\ NewItem.tok.chars = Run(IdentChars, lexer.input)
        /\ NewItem.tok.chars[1] = Head(lexer.input)

\* "a.z" gives Identifier(a), Dot, Identifier(z); ".1" gives Number(['.','1'])
C4_Examples ==
    /\ (src = <<"a", ".", "z">> /\ Len(out) >= 3) =>
          /\ IsToken(out[1], "Ident", <<"a">>)
          /\ IsToken(out[2], "Dot", <<>>)
          /\ IsToken(out[3], "Ident", <<"z">>)
    /\ (src = <<".", "1">> /\ Len(out) >= 1) => IsToken(out[1], "Num", <<".", "1">>)

\* C4 as stated: a '.' is a standalone Dot exactly when the next character is
\* alphabetic (a letter), and otherwise starts a number scan; after a Dot the
\* next pull yields the Identifier starting at the peeked character.
C4_DotBeforeLetterOnly ==
    [][DotTieBreak(Alphabetic) /\ AfterDot]_vars /\ [](C4_Examples)

\* C4, amended: a '.' is a standalone Dot exactly when the next character is
\* alphabetic or an underscore (the start of an identifier), and otherwise
\* starts a number scan; after a Dot the next pull yields the Identifier
\* starting at the peeked character.
C4_DotBeforeIdentStart ==
    [][DotTieBreak(Alphabetic \cup {"_"}) /\ AfterDot]_vars /\ [](C4_Examples)

\* "._" pulled twice: Dot, then the Identifier "_"
C4_Witness ==
    /\ src = <<".", "_">>
    /\ Len(out) = 2
    /\ IsToken(out[1], "Dot", <<>>)
    /\ IsToken(out[2], "Ident", <<"_">>)

-----------------------------------------------------------------------------
(* C5 *)

\* the characters at which the string scan stops
Terminators == {"\"", "'", "\n", ";"}

\* the remaining input s starts, after horizontal whitespace, with a quote
StartsWithQuote(s) == Sig(s) # <<>> /\ Head(Sig(s)) \in Quotes

\* what follows the opening quote
Body(s) == Tail(Sig(s))

\* what is left of the body from the first terminator on (nothing when the
\* body holds none: the scan stopped at the end of the input)
Stopped(s) == From(Body(s), Len(Before(Terminators, Body(s))) + 1)

\* a string pull consumes the double quote that stopped it, and nothing else
\* that stopped it
StringStop ==
    LET s == lexer.input
    IN  StartsWithQuote(s) =>
            /\ HasType(NewItem, "String")
            /\ lexer'.input = IF Stopped(s) # <<>> /\ Head(Stopped(s)) = "\""
                              THEN Tail(Stopped(s))
                              ELSE Stopped(s)

\* the pull after a string that stopped at a single quote, a newline or a ';'
\* dispatches on that character
AfterString ==
    LET s == lexer.input
    IN  (out # <<>> /\ HasType(LastItem, "String") /\ s # <<>>
           /\ Head(s) \in {"'", "\n", ";"}) =>
            /\ last'.ch = Head(s)
            /\ last'.at = Len(src) - Len(s) + 1
            /\ (Head(s) \in {"\n", ";"} => IsToken(NewItem, "EndOfLine", <<>>))
            /\ (Head(s) = "'" => HasType(NewItem, "String"))

\* the two inputs of the test read_till_new_line_or_another_quoteation_mark
C5_Examples ==
    /\ (src = <<"\"", "a", "\n", "\"", "b">> /\ Len(out) >= 3) =>
          /\ IsToken(out[1], "String", <<"a">>)
          /\ IsToken(out[2], "EndOfLine", <<>>)
          /\ IsToken(out[3], "String", <<"b">>)
    /\ (src = <<"\"", "a", "\"", " ", "b">> /\ Len(out) >= 2) =>
          /\ IsToken(out[1], "String", <<"a">>)
          /\ IsToken(out[2], "Ident", <<"b">>)

\* C5: after a pull yields a string, the character that stopped the scan has
\* been consumed if it is a double quote and has not if it is a single quote,
\* a newline, a ';' or the end of the input; in the latter case the next pull
\* dispatches on that very character (EndOfLine for a newline or ';').
C5_StringTerminator ==
    [][StringStop /\ AfterString]_vars /\ [](C5_Examples)

\* the string "a", stopped by a newline that the next pull turns into EndOfLine
C5_Witness ==
    /\ src = <<"\"", "a", "\n", "\"", "b">>
    /\ Len(out) = 3
    /\ IsToken(out[1], "String", <<"a">>)
    /\ IsToken(out[2], "EndOfLine", <<>>)
    /\ IsToken(out[3], "String", <<"b">>)

-----------------------------------------------------------------------------
(* C6 *)

\* C6: no string token holds a string terminator: no double quote, single
\* quote, backtick, newline or ';'.
C6_NoTerminatorInString ==
    \A i \in 1..Len(out) :
        HasType(out[i], "String") =>
            \A j \in 1..Len(out[i].tok.chars) :
                out[i].tok.chars[j] \notin {"\"", "'", Backtick, "\n", ";"}

-----------------------------------------------------------------------------
(* C7 *)

\* the unterminated string of the test reading_string
HelloWorld == <<"H", "e", "l", "l", "o", ",", " ", "w", "o", "r", "l", "d", "!">>

\* C7: a pull whose first significant character is a quote character yields
\* a string token, never an error and never end-of-sequence, also when the
\* string is unterminated at the end of the input.
C7_StringNeverFails ==
    /\ [][StartsWithQuote(lexer.input) => HasType(NewItem, "String")]_vars
    /\ []((src = <<"\"">> \o HelloWorld /\ Len(out) >= 1)
            => IsToken(out[1], "String", HelloWorld))

\* the unterminated "Hello, world! pulled once
C7_Witness ==
    /\ src = <<"\"">> \o HelloWorld
    /\ Len(out) = 1
    /\ IsToken(out[1], "String", HelloWorld)
    /\ lexer.input = <<>>

-----------------------------------------------------------------------------
(* C8 *)

\* a number pull whose maximal run of characters of Digs and decimal points
\* holds at most one decimal point yields Num carrying exactly that run
NumberRun(Digs) ==
    LET s   == lexer.input
        run == Run(Digs \cup {"."}, Sig(s))
    IN  (GoesToNumber(s) /\ Dots(run) <= 1) =>
            /\ IsToken(NewItem, "Num", run)
            /\ lexer'.input = From(Sig(s), Len(run) + 1)

\* the inputs of the test num, and the lone '.'
C8_Examples ==
    /\ (src = <<"1">> /\ Len(out) >= 1) => IsToken(out[1], "Num", <<"1">>)
    /\ (src = <<".", "1">> /\ Len(out) >= 1) => IsToken(out[1], "Num", <<".", "1">>)
    /\ (src = <<"1", ".", "1">> /\ Len(out) >= 1)
          => IsToken(out[1], "Num", <<"1", ".", "1">>)
    /\ (src = <<".">> /\ Len(out) >= 1) => IsToken(out[1], "Num", <<".">>)

\* C8: a number pull whose maximal run of digits and decimal points holds
\* at most one decimal point yields Num carrying exactly that run, a lone
\* '.' included.
C8_NumberIsDigitRun ==
    [][NumberRun(Digits)]_vars /\ [](C8_Examples)

\* what read_num does instead: the run it carries is the maximal run of
\* numeric characters (every character of which char::is_numeric holds, the
\* digits among them) and decimal points.
C8_NumberIsNumericRun ==
    [][NumberRun(Numeric)]_vars /\ [](C8_Examples)

\* "1.1" pulled once: the number 1.1, the input consumed
C8_Witness ==
    /\ src = <<"1", ".", "1">>
    /\ Len(out) = 1
    /\ IsToken(out[1], "Num", <<"1", ".", "1">>)
    /\ lexer.input = <<>>

-----------------------------------------------------------------------------
(* C9 *)

\* a pull whose first significant character is none of the recognised ones,
\* with Digs the characters that start a number, yields Invalid carrying it
\* and consumes it alone
InvalidRecovers(Digs) ==
    LET s == Sig(lexer.input)
    IN  (s # <<>>
           /\ Head(s) \notin Operators \cup Quotes \cup {"\n", ";"}
                               \cup Alphabetic \cup {"_"} \cup Digs \cup {"."}) =>
            /\ IsToken(NewItem, "Invalid", <<Head(s)>>)
            /\ lexer'.input = Tail(s)

\* the pull after an Invalid dispatches on the first significant character
\* after the invalid one, and ends the sequence only at the end of the input
AfterInvalid ==
    LET s == Sig(lexer.input)
    IN  (out # <<>> /\ HasType(LastItem, "Invalid")) =>
            /\ lexer.input = From(src, last.at + 1)
            /\ last'.ch = IF s = <<>> THEN None ELSE Head(s)
            /\ (s # <<>> /\ ~ GoesToNumber(s)) => NewItem # NoneItem

\* C9: a pull whose first significant character is not an operator,
\* bracket, quote, newline, ';', alphabetic, underscore, digit or '.' yields
\* Invalid carrying it and consumes it alone; the next pull goes on from the
\* character after it.
C9_InvalidUnlessDigit ==
    [][InvalidRecovers(Digits) /\ AfterInvalid]_vars

\* what the dispatch does instead: the characters kept from Invalid are
\* those of which char::is_numeric holds, not the digits alone.
C9_InvalidUnlessNumeric ==
    [][InvalidRecovers(Numeric) /\ AfterInvalid]_vars

\* "#=" pulled twice: Invalid('#'), then Assign
C9_Witness ==
    /\ src = <<"#", "=">>
    /\ Len(out) = 2
    /\ IsToken(out[1], "Invalid", <<"#">>)
    /\ IsToken(out[2], "Assign", <<"=">>)

-----------------------------------------------------------------------------
(* C10 *)

\* the variant of each of the seven characters
Variant(c) ==
    CASE c = "=" -> "Assign" [] c = "+" -> "Plus"   [] c = "-" -> "Minus"
      [] c = "{" -> "LCurly" [] c = "}" -> "RCurly"
      [] c = "(" -> "LParen" [] c = ")" -> "RParen"

\* C10: an input made only of the seven characters = + - { } ( ) yields one
\* token per character, in input order, each the matching variant carrying
\* the matched character, and then end-of-sequence.
C10_OperatorsOneToOne ==
    (\A i \in 1..Len(src) : src[i] \in Operators) =>
        \A i \in 1..Len(out) :
            IF i <= Len(src)
            THEN IsToken(out[i], Variant(src[i]), <<src[i]>>)
            ELSE out[i] = NoneItem

\* "(-)" pulled four times: LParen, Minus, RParen, end-of-sequence
C10_Witness ==
    /\ src = <<"(", "-", ")">>
    /\ Len(out) = 4
    /\ IsToken(out[1], "LParen", <<"(">>)
    /\ IsToken(out[2], "Minus", <<"-">>)
    /\ IsToken(out[3], "RParen", <<")">>)
    /\ out[4] = NoneItem

-----------------------------------------------------------------------------
(* C11 *)

\* the number of characters read so far
Consumed == Len(src) - Len(lexer.input)

\* the raw offset of the latest token is the number of characters before the
\* character its pull dispatched on
LatestTokenOffset ==
    (out # <<>> /\ LastItem.tag = "Ok") =>
        /\ last.at >= 1
        /\ src[last.at] = last.ch
        /\ LastItem.pos.raw = last.at - 1

\* the pull being taken dispatches on the first significant character of the
\* remaining input, and its token carries the number of characters before it
OffsetOfFirstSignificant ==
    LET s == Sig(lexer.input)
    IN  NewItem.tag = "Ok" =>
            /\ s # <<>>
            /\ NewItem.pos.raw = Len(src) - Len(s)
            /\ last'.at = Len(src) - Len(s) + 1

\* C11: the position of every emitted token is the lexer position at the
\* token's first significant character, taken after the whitespace skip and
\* before any sub-scanner reads on: its raw offset is the number of input
\* characters before that first character, skipped spaces and tabs included.
C11_TokenOffset ==
    [][OffsetOfFirstSignificant]_vars /\ [](LatestTokenOffset)

\* "   \nhello" pulled twice: EndOfLine at offset 3, the identifier at offset 4
C11_Witness ==
    /\ src = <<" ", " ", " ", "\n", "h", "e", "l", "l", "o">>
    /\ Len(out) = 2
    /\ HasType(out[1], "EndOfLine") /\ out[1].pos.raw = 3
    /\ HasType(out[2], "Ident") /\ out[2].pos.raw = 4

-----------------------------------------------------------------------------
(* C12 *)

\* C12: line and column are 1-based: when the first character of the input
\* is a significant character, the token of the first pull carries line 1
\* and column 1.
C12_FirstTokenAtOneOne ==
    (src # <<>> /\ Head(src) \notin Blank /\ out # <<>> /\ out[1].tag = "Ok") =>
        (out[1].pos.line = 1 /\ out[1].pos.column = 1)

\* what Lexer::new and the first read_char give instead: line 0, column 2
FirstTokenAtZeroTwo ==
    (src # <<>> /\ Head(src) \notin Blank /\ out # <<>> /\ out[1].tag = "Ok") =>
        (out[1].pos.line = 0 /\ out[1].pos.column = 2)

-----------------------------------------------------------------------------
(* C13 *)

\* the raw offset, once set, is the number of characters consumed less one
OffsetCountsConsumed ==
    lexer.position.raw # NoRaw => lexer.position.raw = Consumed - 1

\* a pull that finds the input exhausted leaves the position as it is
ExhaustedReadKeepsPosition ==
    lexer.input = <<>> => lexer'.position = lexer.position

\* C13: the position is advanced once per character consumed and at no other
\* time: after any pulls, also pulls made after the input is exhausted, the
\* raw offset (once set) is the number of characters consumed less one, and a
\* read that finds the input exhausted leaves line, column and raw offset
\* unchanged.
C13_AdvanceOncePerCharacter ==
    [](OffsetCountsConsumed) /\ [][ExhaustedReadKeepsPosition]_vars

\* what read_char does instead: every read advances the position, so while
\* input remains the offset is the number of characters consumed less one,
\* and every pull on exhausted input adds one to it
OffsetCountsReads ==
    /\ [](lexer.input # <<>> /\ lexer.position.raw # NoRaw
            => lexer.position.raw = Consumed - 1)
    /\ [][lexer.input = <<>> =>
            lexer'.position.raw = IF lexer.position.raw = NoRaw THEN 0
                                  ELSE lexer.position.raw + 1]_vars

-----------------------------------------------------------------------------
(* C14 *)

\* the number of newlines among the first n characters of s
Newlines(s, n) == Cardinality({i \in 1..n : i <= Len(s) /\ s[i] = "\n"})

\* the position in which a lexer starts
StartPos == new(src).position

\* the index in src of the first character of the i-th item, a token
TokenAt(i) == out[i].pos.raw + 1

\* C14 as stated: the position update made when a character is consumed
\* increments line (and not column) if and only if that character is a
\* newline, and column (and not line) otherwise: so a token whose first
\* character is the n-th of the input is n updates from the start, one line
\* for each newline among the first n characters and one column for each
\* other character.
C14_LineOnNewlineConsumed ==
    \A i \in 1..Len(out) :
        out[i].tag = "Ok" =>
            /\ out[i].pos.line = StartPos.line + Newlines(src, TokenAt(i))
            /\ out[i].pos.column
                 = StartPos.column + TokenAt(i) - Newlines(src, TokenAt(i))

\* a token is one line further for each newline before its first character,
\* and one column further for each other character up to its first one
TokenLineAfterNewline ==
    \A i \in 1..Len(out) :
        out[i].tag = "Ok" =>
            /\ out[i].pos.line = StartPos.line + Newlines(src, TokenAt(i) - 1)
            /\ out[i].pos.column
                 = StartPos.column + TokenAt(i) - Newlines(src, TokenAt(i) - 1)

\* the same of the lexer's own position, as long as every read has consumed
\* a character (the current character is not None)
LexerLineAfterNewline ==
    lexer.ch # None =>
        /\ lexer.position.line = StartPos.line + Newlines(src, Consumed - 1)
        /\ lexer.position.column
             = StartPos.column + Consumed - Newlines(src, Consumed - 1)

\* C14, amended: the position update made when a character is consumed
\* increments line (and not column) if and only if the character consumed
\* just before it is a newline, and column (and not line) otherwise: a
\* newline counts as a column of the line it ends, and the line grows when
\* the character after it is consumed.
C14_LineAfterNewlineConsumed ==
    TokenLineAfterNewline /\ LexerLineAfterNewline

\* "   \nhello" pulled twice: the newline is the fifth column of the first
\* line, the identifier is on the next line
C14_Witness ==
    /\ src = <<" ", " ", " ", "\n", "h", "e", "l", "l", "o">>
    /\ Len(out) = 2
    /\ HasType(out[1], "EndOfLine")
    /\ out[1].pos.line = StartPos.line /\ out[1].pos.column = StartPos.column + 4
    /\ HasType(out[2], "Ident")
    /\ out[2].pos.line = StartPos.line + 1 /\ out[2].pos.column = StartPos.column + 4

-----------------------------------------------------------------------------
(* C15 *)

\* the characters that start an identifier
IdentStart == Alphabetic \cup {"_"}

\* a pull whose first significant character starts an identifier yields the
\* Identifier made of the maximal run of identifier characters, and leaves
\* the input at the first character after the run
IdentMunch ==
    LET s   == Sig(lexer.input)
        run == Run(IdentChars, s)
    IN  (s # <<>> /\ Head(s) \in IdentStart) =>
            /\ IsToken(NewItem, "Ident", run)
            /\ lexer'.input = From(s, Len(run) + 1)

\* the pull after an identifier dispatches on the first significant character
\* left after the run
AfterIdent ==
    LET s == Sig(lexer.input)
    IN  (out # <<>> /\ HasType(LastItem, "Ident")) =>
            /\ lexer.input = From(src, last.at + Len(LastItem.tok.chars))
            /\ (lexer.input # <<>> => Head(lexer.input) \notin IdentChars)
            /\ last'.ch = IF s = <<>> THEN None ELSE Head(s)

\* the inputs of the test ident
C15_Examples ==
    /\ (src = <<"_", "i", "d", "e", "n", "t">> /\ Len(out) >= 1)
          => IsToken(out[1], "Ident", <<"_", "i", "d", "e", "n", "t">>)
    /\ (src = <<"h", "e", "l", "l", "o">> /\ Len(out) >= 1)
          => IsToken(out[1], "Ident", <<"h", "e", "l", "l", "o">>)
    /\ (src = <<" ", " ", " ", " ", " ", "h", "1">> /\ Len(out) >= 1)
          => IsToken(out[1], "Ident", <<"h", "1">>)

\* C15: identifier maximal munch: a pull whose first significant character
\* is alphabetic or an underscore always yields an Identifier (no error, no
\* end-of-sequence) made of that character and the maximal following run of
\* alphanumeric or underscore characters; the character after the run is not
\* consumed and is the one the next pull starts from.
C15_IdentMaximalMunch ==
    [][IdentMunch /\ AfterIdent]_vars /\ [](C15_Examples)

\* "     h1" pulled once: the identifier h1
C15_Witness ==
    /\ src = <<" ", " ", " ", " ", " ", "h", "1">>
    /\ Len(out) = 1
    /\ IsToken(out[1], "Ident", <<"h", "1">>)
    /\ lexer.input = <<>>

-----------------------------------------------------------------------------
(* C16 *)

\* the run of number characters at the first significant character of s,
\* where Digs are the characters taken for digits; empty when a pull on s
\* does not go to the number sub-scanner
NumberText(Digs, s) ==
    IF /\ Sig(s) # <<>>
       /\ Head(Sig(s)) \in Digs \cup {"."}
       /\ ~ (Head(Sig(s)) = "." /\ Len(Sig(s)) >= 2 /\ Sig(s)[2] \in IdentStart)
    THEN Run(Digs \cup {"."}, Sig(s))
    ELSE <<>>

\* two items are the same, positions aside
SameItem(a, b) ==
    /\ a.tag = b.tag
    /\ a.tag = "Ok" => a.tok = b.tok
    /\ a.tag = "Err" => a.kind = b.kind

\* a pull whose number has more than one decimal point consumes the number's
\* run and no more
FailedNumberConsumesRun(Digs) ==
    LET s   == Sig(lexer.input)
        run == NumberText(Digs, lexer.input)
    IN  Dots(run) > 1 => lexer'.input = From(s, Len(run) + 1)

\* the pull after a failed number scan (the only pull that yields nothing
\* after it dispatched on a character) starts at the first character after
\* the number's run and yields what a lexer made on the rest would yield first
AfterFailedNumber(Digs) ==
    LET run == NumberText(Digs, From(src, last.at))
        s   == Sig(lexer.input)
    IN  (out # <<>> /\ LastItem = NoneItem /\ last.ch # None) =>
            /\ Dots(run) > 1
            /\ lexer.input = From(src, last.at + Len(run))
            /\ last'.ch = IF s = <<>> THEN None ELSE Head(s)
            /\ SameItem(NewItem, next(new(lexer.input)).item)

\* C16: a failed number scan does not corrupt later scanning: when a pull's
\* number sub-scan fails (more than one decimal point), exactly the maximal
\* run of digits and decimal points has been consumed, and the following
\* pull dispatches on the first character after that run and yields the
\* token it would yield if the input started at that character, positions
\* aside.
C16_FailedNumberKeepsScanning ==
    [][FailedNumberConsumesRun(Digits) /\ AfterFailedNumber(Digits)]_vars

\* the same with every numeric character counted as a digit, as is_num_char
\* counts them
FailedNumericKeepsScanning ==
    [][FailedNumberConsumesRun(Numeric) /\ AfterFailedNumber(Numeric)]_vars

\* "..=" pulled twice: the failed number took "..", the next pull the '='
FailedNumberReached ==
    /\ src = <<".", ".", "=">>
    /\ Len(out) = 2
    /\ out[1] = NoneItem /\ IsToken(out[2], "Assign", <<"=">>)

-----------------------------------------------------------------------------
(* C17 *)

\* the internal failures a pull can run into: the Err of Pos::advance
\* unwrapped by read_char, read_ident or read_num entered with no current
\* character, the unwrap of read_string on None
InternalFailures == {"advance", "read_ident", "read_num", "unwrap"}

\* C17: no input triggers an internal invariant violation: for every input
\* and every number of pulls, pulls after exhaustion included, Pos::advance
\* never returns an error, the identifier and number sub-scanners are never
\* entered with no current character, the unwrap of the string sub-scanner
\* never fails, and no pull yields an error of kind Unreachable.
C17_NoInternalFailure ==
    /\ lexer.fault \cap InternalFailures = {}
    /\ \A i \in 1..Len(out) : out[i] # ErrItem("Unreachable")

\* the two strings around a newline, pulled past the end of the input: three
\* tokens and two ends, and nothing has failed
C17_Witness ==
    /\ src = <<"\"", "a", "\n", "\"", "b">>
    /\ Len(out) = 5
    /\ IsToken(out[1], "String", <<"a">>)
    /\ HasType(out[2], "EndOfLine")
    /\ IsToken(out[3], "String", <<"b">>)
    /\ out[4] = NoneItem /\ out[5] = NoneItem
    /\ lexer.fault = {}

-----------------------------------------------------------------------------
(* C18 *)

\* t is what is left of s after some of its first characters, at least one,
\* are taken
ProperSuffix(t, s) == Len(t) < Len(s) /\ t = From(s, Len(s) - Len(t) + 1)

\* a pull made while input remains consumes at least one character, and
\* what remains after it is what followed the consumed characters
PullConsumes ==
    lexer.input # <<>> => ProperSuffix(lexer'.input, lexer.input)

\* a pull made on the exhausted input leaves it exhausted and yields the end
\* of the sequence
ExhaustedPullEnds ==
    lexer.input = <<>> => (lexer'.input = <<>> /\ NewItem = NoneItem)

\* the number of pulls so far that yielded a token
Tokens == Cardinality({i \in 1..Len(out) : out[i].tag = "Ok"})

\* for an input of n characters at most n pulls yield a token, after n + 1
\* pulls the input is exhausted, and every further pull yields the end of the
\* sequence
Terminates ==
    /\ Tokens <= Len(src)
    /\ Len(out) >= Len(src) + 1 => lexer.input = <<>>
    /\ \A i \in 1..Len(out) : i > Len(src) + 1 => out[i] = NoneItem

\* C18: progress and termination: every pull made while unconsumed input
\* remains consumes at least one character, and no character is consumed
\* twice; hence for an input of n characters at most n pulls yield a token,
\* and after at most n + 1 pulls the input is exhausted and all further pulls
\* yield end-of-sequence.
C18_ProgressAndTermination ==
    [][PullConsumes /\ ExhaustedPullEnds]_vars /\ [](Terminates)

\* ";\n;" pulled five times: one token for each character, each pull taking
\* one, then the end, twice
C18_Witness ==
    /\ src = <<";", "\n", ";">>
    /\ Len(out) = 5
    /\ Tokens = 3
    /\ out[4] = NoneItem /\ out[5] = NoneItem
    /\ lexer.input = <<>>

-----------------------------------------------------------------------------
(* C19 *)

\* the characters that end a statement
Separators == {"\n", ";"}

\* the places of the input, among the characters consumed so far, that hold
\* a separator
SeparatorsConsumed == {j \in 1..Consumed : src[j] \in Separators}

\* the places of the input where the EndOfLine tokens yielded so far start
EndOfLinePlaces == {TokenAt(i) : i \in {k \in 1..Len(out) : HasType(out[k], "EndOfLine")}}

\* the tokens come in the order of the places where they start
TokensInInputOrder ==
    \A i, j \in 1..Len(out) :
        (i < j /\ out[i].tag = "Ok" /\ out[j].tag = "Ok") => TokenAt(i) < TokenAt(j)

\* C19: statement separators are never swallowed: no sub-scanner and no
\* whitespace skip consumes a newline or a ';', so every separator consumed
\* so far is the start of an EndOfLine token of its own and every EndOfLine
\* token starts at a separator, the tokens being in the order of the input:
\* once the input is exhausted there are as many EndOfLine tokens as the
\* input holds separators, also when they stand between quote characters.
C19_SeparatorsNotSwallowed ==
    /\ EndOfLinePlaces = SeparatorsConsumed
    /\ TokensInInputOrder
    /\ lexer.input = <<>> =>
          Cardinality({k \in 1..Len(out) : HasType(out[k], "EndOfLine")})
             = Cardinality({j \in 1..Len(src) : src[j] \in Separators})

\* a ';' between two double quotes: an empty string, the EndOfLine of the
\* ';', an empty string
C19_Witness ==
    /\ src = <<"\"", ";", "\"">>
    /\ Len(out) = 3
    /\ IsToken(out[1], "String", <<>>)
    /\ HasType(out[2], "EndOfLine") /\ TokenAt(2) = 2
    /\ IsToken(out[3], "String", <<>>)
    /\ lexer.input = <<>>

====
